---- MODULE Spec2Model ----
(***************************************************************************)
(* A model of the MAX6675_Thermocouple driver (MAX6675_Thermocouple.cpp    *)
(* and .h): the bit-banged 16-bit read, the time gate of update(), the     *)
(* moving-average queue and the three temperature accessors.               *)
(*                                                                         *)
(* Numbers.  A C++ double is modelled as an exact rational or NaN, so the  *)
(* rounding of a division by a window size that is not a power of two is   *)
(* not modelled; everything else (NaN propagation, NaN comparisons, the    *)
(* order of the operations) is computed as the code computes it.  An       *)
(* unsigned long timestamp is a pair <<high, low>> of 16-bit limbs, which  *)
(* keeps the 32-bit wrap-around exact.                                     *)
(***************************************************************************)
EXTENDS Integers, Sequences, FiniteSets, TLC

VARIABLES
    readingsNumber,  \* MAX6675_Thermocouple::readingsNumber (window size)
    delayTime,       \* MAX6675_Thermocouple::delayTime (ms)
    dataPoints,      \* *MAX6675_Thermocouple::dataPoints, front first
    meanTempC,       \* MAX6675_Thermocouple::meanTempC
    lastUpdate,      \* the function-static lastUpdate of update()
    pins,            \* levels driven on the CS and SCK lines
    cfg,             \* history: the last arguments given for window and delay
    fed,             \* history: the last <= window valid samples read since the window was set
    readAt,          \* history: timestamp of the latest protocol read, <<>> if none
    call             \* history: the operation that produced this state

prog == <<readingsNumber, delayTime, dataPoints, meanTempC, lastUpdate, pins>>
hist == <<cfg, fed, readAt, call>>
vars == <<readingsNumber, delayTime, dataPoints, meanTempC, lastUpdate, pins,
          cfg, fed, readAt, call>>

----------------------------------------------------------------------------
(* Bounds of the model and constants of the program. *)

MaxReadingsArg == 2      \* window arguments are 0..MaxReadingsArg
MaxDelayArg == 1         \* delay arguments are 0..MaxDelayArg
MaxTick == 1             \* timestamps 0..MaxTick next to the ones at the default delay

MAX6675_DEFAULT_READINGS_NUMBER == 5
MAX6675_DEFAULT_DELAY_TIME == 250

LimbBase == 65536        \* 2^16: an unsigned long is two such limbs
INT16_MAX == 32767
INT32_MAX == 2147483647

----------------------------------------------------------------------------
(* Doubles: an exact rational in lowest terms, or NaN. *)

RECURSIVE GCD(_, _)
GCD(a, b) == IF b = 0 THEN a ELSE GCD(b, a % b)

Abs(x) == IF x < 0 THEN -x ELSE x

NaN == [nan |-> TRUE, num |-> 0, den |-> 1]

Dbl(n, d) ==
    LET g == GCD(Abs(n), d)
    IN  [nan |-> FALSE, num |-> n \div g, den |-> d \div g]

IsNaN(a) == a.nan

DAdd(a, b) ==
    IF a.nan \/ b.nan THEN NaN
    ELSE Dbl(a.num * b.den + b.num * a.den, a.den * b.den)

DMul(a, b) ==
    IF a.nan \/ b.nan THEN NaN
    ELSE Dbl(a.num * b.num, a.den * b.den)

\* a / n for an integer n > 0
DDivInt(a, n) == IF a.nan THEN NaN ELSE Dbl(a.num, a.den * n)

\* the C++ operator != on doubles: true as soon as an operand is NaN
DNe(a, b) == a.nan \/ b.nan \/ a # b

RECURSIVE DSum(_)
DSum(s) == IF s = <<>> THEN Dbl(0, 1) ELSE DAdd(DSum(SubSeq(s, 1, Len(s) - 1)), s[Len(s)])

----------------------------------------------------------------------------
(* unsigned long: <<high limb, low limb>>. *)

U32(n) == <<n \div LimbBase, n % LimbBase>>

ULONG_MAX == <<LimbBase - 1, LimbBase - 1>>

\* a - b modulo 2^32
USub(a, b) ==
    LET lo == a[2] - b[2]
        borrow == IF lo < 0 THEN 1 ELSE 0
    IN  <<(a[1] - b[1] - borrow) % LimbBase, lo % LimbBase>>

\* a > d, for a timestamp difference a and a delay d below 2^31
UGt(a, d) ==
    \/ a[1] > d \div LimbBase
    \/ a[1] = d \div LimbBase /\ a[2] > d % LimbBase

----------------------------------------------------------------------------
(* Inputs. *)

ReadingsArgs == 0..MaxReadingsArg
DelayArgs == 0..MaxDelayArg

\* values millis() returns: around 0, around the default delay, and the last
\* value before the counter wraps
Times ==
    {U32(k) : k \in 0..MaxTick}
        \cup {U32(MAX6675_DEFAULT_DELAY_TIME + k) : k \in 0..1}
        \cup {ULONG_MAX}

\* 16-bit words the chip shifts out: 25.00 C, 50.00 C with both low bits set,
\* and 25.00 C with the open-thermocouple flag set
Words == {800, 1603, 804}

\* the width of int in the build: 16 or 32 bits
IntMaxes == {INT16_MAX, INT32_MAX}

\* what an uninitialised double member may hold
Indeterminate == {NaN, Dbl(0, 1)}

\* the chip shifts the word out most significant bit first: SO at the k-th clock
SoBits(word) == [k \in 1..16 |-> (word \div 2^(16 - k)) % 2]

\* the open-thermocouple flag D2 and the magnitude D14..D3 of a word (MAX6675 data sheet)
OpenFlag(word) == (word \div 4) % 2 = 1
Magnitude(word) == (word \div 8) % 4096
SignBit(word) == (word \div 32768) % 2 = 1

\* the Celsius value the data sheet gives a word: 0.25 degrees per count
Sample(word) == Dbl(Magnitude(word), 4)

----------------------------------------------------------------------------
(* Protocol layer. *)

\* spiread(): eight clock cycles, the k-th sample stored at bit 7-k; `first`
\* is the index in so of the first of the eight samples
spiread(so, first) ==
    LET acc[k \in 0..8] ==
            IF k = 0 THEN 0
            ELSE acc[k - 1] + (IF so[first + k - 1] # 0 THEN 2^(8 - k) ELSE 0)
    IN  acc[8]

\* int arithmetic of the build: a result above INT_MAX wraps to negative
IntWrap(x, intMax) == IF x > intMax THEN x - intMax - intMax - 2 ELSE x

\* readValue() shifting the status bits out one place short
readValueShiftTwo(so, intMax) ==
    LET hi == spiread(so, 1)
        shifted == IntWrap(hi * 256, intMax)
        value == shifted + spiread(so, 9)
    IN  IF (value \div 4) % 2 = 1 THEN NaN
        ELSE Dbl(value \div 4, 4)

\* readValue(): the decoded Celsius value, NaN when bit 2 is set
readValue(so, intMax) ==
    LET hi == spiread(so, 1)
        shifted == IntWrap(hi * 256, intMax)
        value == shifted + spiread(so, 9)      \* value |= spiread(): the low byte is clear
    IN  IF (value \div 4) % 2 = 1 THEN NaN
        ELSE Dbl(value \div 8, 4)              \* (value >> 3) * 0.25

\* the lines when readValue() returns: CS raised at line 94, SCK left high by spiread()
AfterRead == [cs |-> "HIGH", sck |-> "HIGH"]

----------------------------------------------------------------------------
(* Scheduler and averaging buffer. *)

\* validate() accepting zero
validateNonNegative(data, min) == IF data >= 0 THEN data ELSE min

validate(data, min) == IF data > 0 THEN data ELSE min

\* the gate comparing the clock itself, not the time since the last read
GateOpenNoLast(now, last, delay) == UGt(now, delay)

\* the gate opening as soon as the delay has elapsed
GateOpenInclusive(now, last, delay) ==
    LET d == USub(now, last) IN UGt(d, delay) \/ d = U32(delay)

\* the gate written as now > lastUpdate + delayTime, the sum modulo 2^32
GateOpenSum(now, last, delay) ==
    LET lo == last[2] + (delay % LimbBase)
        carry == lo \div LimbBase
        due == <<(last[1] + (delay \div LimbBase) + carry) % LimbBase, lo % LimbBase>>
    IN  now[1] > due[1] \/ (now[1] = due[1] /\ now[2] > due[2])

\* (now - lastUpdate) > delayTime, in unsigned long arithmetic
GateOpen(now, last, delay) == UGt(USub(now, last), delay)

\* a push that never evicts
PushNoEvict(dp, x, rn) == Append(dp, x)

\* lines 56-59: evict the oldest entry at capacity, then append
Push(dp, x, rn) == Append(IF Len(dp) >= rn THEN Tail(dp) ELSE dp, x)

recalculate(dp, rn) == IF Len(dp) # rn THEN NaN ELSE DSum(dp)

\* lines 55-61 of update(): what a read value does to the queue and the mean
feed(rn, dp, mean, value) ==
    IF DNe(value, NaN)
    THEN LET q == Push(dp, DDivInt(value, rn), rn)
         IN  [dataPoints |-> q, meanTempC |-> recalculate(q, rn)]
    ELSE [dataPoints |-> dp, meanTempC |-> mean]

\* the conversion with the offset in whole degrees
celsiusToKelvinWholeDegrees(celsius) == DAdd(celsius, Dbl(273, 1))

celsiusToKelvin(celsius) == DAdd(celsius, Dbl(27315, 100))

celsiusToFahrenheit(celsius) ==
    DAdd(DMul(DMul(celsius, Dbl(9, 1)), Dbl(1, 5)), Dbl(32, 1))

\* what the three accessors return in the current state
Celsius == meanTempC
Kelvin == celsiusToKelvin(Celsius)
Fahrenheit == celsiusToFahrenheit(Celsius)

----------------------------------------------------------------------------
(* The operations. *)

NoCall(name) ==
    [name |-> name, now |-> U32(0), read |-> FALSE, word |-> 0,
     evict |-> FALSE, val |-> NaN]

\* the constructor: meanTempC is not assigned, lastUpdate starts at 0
Init ==
    \E n \in ReadingsArgs, t \in DelayArgs :
        /\ readingsNumber = validate(n, MAX6675_DEFAULT_READINGS_NUMBER)
        /\ dataPoints = <<>>
        /\ delayTime = validate(t, MAX6675_DEFAULT_DELAY_TIME)
        /\ meanTempC \in Indeterminate
        /\ lastUpdate = U32(0)
        /\ pins = [cs |-> "HIGH", sck |-> "LOW"]
        /\ cfg = [n |-> n, t |-> t]
        /\ fed = <<>>
        /\ readAt = <<>>
        /\ call = NoCall("construct")

\* what readValue() returns for each word of Words, in either build
WordValues == [w \in Words |-> {readValue(SoBits(w), im) : im \in IntMaxes}]

\* update() with millis() returning now; when the gate is open the chip
\* shifts out word
update ==
    \E now \in Times :
        IF GateOpen(now, lastUpdate, delayTime)
        THEN \E word \in Words : \E value \in WordValues[word] :
                LET r == feed(readingsNumber, dataPoints, meanTempC, value)
                    f == Append(fed, Sample(word))
                IN  /\ lastUpdate' = now
                    /\ pins' = AfterRead
                    /\ dataPoints' = r.dataPoints
                    /\ meanTempC' = r.meanTempC
                    /\ UNCHANGED <<readingsNumber, delayTime, cfg>>
                    /\ fed' = IF OpenFlag(word) THEN fed
                              ELSE IF Len(f) > readingsNumber THEN Tail(f) ELSE f
                    /\ readAt' = now
                    /\ call' = [name |-> "update", now |-> now, read |-> TRUE,
                                word |-> word,
                                evict |-> Len(dataPoints) >= readingsNumber,
                                val |-> value]
        ELSE /\ UNCHANGED <<prog, cfg, fed, readAt>>
             /\ call' = [NoCall("update") EXCEPT !.now = now]

setReadingsNumber ==
    \E n \in ReadingsArgs :
        /\ readingsNumber' = validate(n, MAX6675_DEFAULT_READINGS_NUMBER)
        /\ dataPoints' = <<>>
        /\ UNCHANGED <<delayTime, meanTempC, lastUpdate, pins, readAt>>
        /\ cfg' = [cfg EXCEPT !.n = n]
        /\ fed' = <<>>
        /\ call' = NoCall("setReadingsNumber")

\* setDelayTime() that also starts a fresh queue, as setReadingsNumber() does
setDelayTimeResetting ==
    \E t \in DelayArgs :
        /\ delayTime' = validate(t, MAX6675_DEFAULT_DELAY_TIME)
        /\ dataPoints' = <<>>
        /\ UNCHANGED <<readingsNumber, meanTempC, lastUpdate, pins>>
        /\ UNCHANGED <<fed, readAt>>
        /\ cfg' = [cfg EXCEPT !.t = t]
        /\ call' = NoCall("setDelayTime")

setDelayTime ==
    \E t \in DelayArgs :
        /\ delayTime' = validate(t, MAX6675_DEFAULT_DELAY_TIME)
        /\ UNCHANGED <<readingsNumber, dataPoints, meanTempC, lastUpdate, pins>>
        /\ UNCHANGED <<fed, readAt>>
        /\ cfg' = [cfg EXCEPT !.t = t]
        /\ call' = NoCall("setDelayTime")

\* an accessor that recomputes the mean before returning it
readCelsiusRecalculating ==
    /\ meanTempC' = recalculate(dataPoints, readingsNumber)
    /\ call' = [NoCall("readCelsius") EXCEPT !.val = meanTempC']
    /\ UNCHANGED <<readingsNumber, delayTime, dataPoints, lastUpdate, pins>>
    /\ UNCHANGED <<cfg, fed, readAt>>

readCelsius ==
    /\ call' = [NoCall("readCelsius") EXCEPT !.val = Celsius]
    /\ UNCHANGED <<prog, cfg, fed, readAt>>

readKelvin ==
    /\ call' = [NoCall("readKelvin") EXCEPT !.val = Kelvin]
    /\ UNCHANGED <<prog, cfg, fed, readAt>>

readFahrenheit ==
    /\ call' = [NoCall("readFahrenheit") EXCEPT !.val = Fahrenheit]
    /\ UNCHANGED <<prog, cfg, fed, readAt>>

Next ==
    \/ update
    \/ setReadingsNumber
    \/ setDelayTime
    \/ readCelsius
    \/ readKelvin
    \/ readFahrenheit

Spec == Init /\ [][Next]_vars

----------------------------------------------------------------------------
(* The decoder alone: every 16-bit word, in either build. *)

AllWords == 0..(LimbBase - 1)

InitDecode ==
    \E word \in AllWords :
        /\ readingsNumber = MAX6675_DEFAULT_READINGS_NUMBER
        /\ delayTime = MAX6675_DEFAULT_DELAY_TIME
        /\ dataPoints = <<>>
        /\ meanTempC = NaN
        /\ lastUpdate = U32(0)
        /\ pins = [cs |-> "HIGH", sck |-> "LOW"]
        /\ cfg = [n |-> 0, t |-> 0]
        /\ fed = <<>>
        /\ readAt = <<>>
        /\ call = [NoCall("word") EXCEPT !.word = word]

decodeWord ==
    /\ call.name = "word"
    /\ \E intMax \in IntMaxes :
           call' = [call EXCEPT !.name = "readValue",
                                !.val = readValue(SoBits(call.word), intMax)]
    /\ UNCHANGED <<prog, cfg, fed, readAt>>

NextDecode == decodeWord

SpecDecode == InitDecode /\ [][NextDecode]_vars

----------------------------------------------------------------------------
(* One protocol read, line by line: readValue() and the two spiread() calls *)
(* it makes.  Here call holds the position in the code and the locals.     *)

\* words the chip shifts out during the stepwise read
ReadWords == Words \cup {0, 1, 33000, LimbBase - 1}

\* spiread() storing the first sample in the lowest bit
StoreBitLsbFirst(value, i, level) == IF level # 0 THEN value + 2^(7 - i) ELSE value

\* line 107-109: if (digitalRead(SO_pin)) value |= (1 << i)
StoreBit(value, i, level) == IF level # 0 THEN value + 2^i ELSE value

\* not in readValue(): before the constructor's first update(), or returned
Idle ==
    [name |-> "readValue", pc |-> "idle", byte |-> 0, i |-> 0, acc |-> 0,
     value |-> 0, word |-> 0, intMax |-> INT32_MAX, so |-> <<>>, log |-> <<>>,
     val |-> NaN]

InitRead ==
    /\ readingsNumber = MAX6675_DEFAULT_READINGS_NUMBER
    /\ delayTime = MAX6675_DEFAULT_DELAY_TIME
    /\ dataPoints = <<>>
    /\ meanTempC = NaN
    /\ lastUpdate = U32(0)
    /\ pins = [cs |-> "HIGH", sck |-> "LOW"]
    /\ cfg = [n |-> 0, t |-> 0]
    /\ fed = <<>>
    /\ readAt = <<>>
    /\ call = Idle

\* line 89: digitalWrite(CS_pin, LOW); the chip latches the word it will shift out
rvSelect ==
    /\ call.pc = "idle"
    /\ pins' = [pins EXCEPT !.cs = "LOW"]
    /\ \E word \in ReadWords, intMax \in IntMaxes :
           call' = [Idle EXCEPT !.pc = "low", !.byte = 1, !.i = 7, !.word = word,
                                !.intMax = intMax, !.log = <<"CS_LOW">>]
    /\ UNCHANGED <<readingsNumber, delayTime, dataPoints, meanTempC, lastUpdate>>
    /\ UNCHANGED <<cfg, fed, readAt>>

\* line 105: digitalWrite(SCK_pin, LOW)
spiClockLow ==
    /\ call.pc = "low"
    /\ pins' = [pins EXCEPT !.sck = "LOW"]
    /\ call' = [call EXCEPT !.pc = "sample", !.log = Append(@, "SCK_LOW")]
    /\ UNCHANGED <<readingsNumber, delayTime, dataPoints, meanTempC, lastUpdate>>
    /\ UNCHANGED <<cfg, fed, readAt>>

\* lines 107-109: sample SO and store the bit
spiSample ==
    /\ call.pc = "sample"
    /\ LET level == SoBits(call.word)[Len(call.so) + 1]
       IN  call' = [call EXCEPT !.pc = "high",
                                !.acc = StoreBit(@, call.i, level),
                                !.so = Append(@, level),
                                !.log = Append(@, "SAMPLE")]
    /\ UNCHANGED <<prog, cfg, fed, readAt>>

\* line 110: digitalWrite(SCK_pin, HIGH), then the loop's i-- and test; when the
\* loop ends spiread() returns into line 91-92 or line 93 of readValue()
spiClockHigh ==
    /\ call.pc = "high"
    /\ pins' = [pins EXCEPT !.sck = "HIGH"]
    /\ call' =
         IF call.i > 0
         THEN [call EXCEPT !.pc = "low", !.i = @ - 1, !.log = Append(@, "SCK_HIGH")]
         ELSE IF call.byte = 1
         THEN [call EXCEPT !.pc = "low", !.byte = 2, !.i = 7, !.acc = 0,
                           !.value = IntWrap(call.acc * 256, call.intMax),
                           !.log = Append(@, "SCK_HIGH")]
         ELSE [call EXCEPT !.pc = "deselect", !.value = @ + call.acc,
                           !.log = Append(@, "SCK_HIGH")]
    /\ UNCHANGED <<readingsNumber, delayTime, dataPoints, meanTempC, lastUpdate>>
    /\ UNCHANGED <<cfg, fed, readAt>>

\* lines 94-99: digitalWrite(CS_pin, HIGH), decode and return
rvDeselect ==
    /\ call.pc = "deselect"
    /\ pins' = [pins EXCEPT !.cs = "HIGH"]
    /\ call' = [call EXCEPT !.pc = "idle", !.log = Append(@, "CS_HIGH"),
                            !.val = IF (call.value \div 4) % 2 = 1 THEN NaN
                                    ELSE Dbl(call.value \div 8, 4)]
    /\ UNCHANGED <<readingsNumber, delayTime, dataPoints, meanTempC, lastUpdate>>
    /\ UNCHANGED <<cfg, fed, readAt>>

NextRead ==
    \/ rvSelect
    \/ spiClockLow
    \/ spiSample
    \/ spiClockHigh
    \/ rvDeselect

SpecRead == InitRead /\ [][NextRead]_vars

----------------------------------------------------------------------------
(* Two devices in one program.  Each object has its own fields, while
   lastUpdate, a static local of update(), is one variable of the program:
   here readingsNumber, delayTime, dataPoints, meanTempC, pins and readAt
   are functions of the device and lastUpdate is a single timestamp. *)

Devices == {"A", "B"}

WindowsTwo == {1, 2}
DelaysTwo == {0, 1}
TimesTwo == {U32(0), U32(251), U32(252), U32(502)}
WordsTwo == {800, 1603}

OnDevice(name, d, now, read) ==
    [name |-> name, dev |-> d, now |-> now, read |-> read]

\* both constructors have run
InitTwo ==
    /\ readingsNumber \in [Devices -> WindowsTwo]
    /\ \E t \in [Devices -> DelaysTwo] :
           delayTime = [d \in Devices |->
                           validate(t[d], MAX6675_DEFAULT_DELAY_TIME)]
    /\ dataPoints = [d \in Devices |-> <<>>]
    /\ meanTempC \in [Devices -> Indeterminate]
    /\ lastUpdate = U32(0)
    /\ pins = [d \in Devices |-> [cs |-> "HIGH", sck |-> "LOW"]]
    /\ cfg = <<>>
    /\ fed = <<>>
    /\ readAt = [d \in Devices |-> <<>>]
    /\ call = OnDevice("construct", "A", U32(0), FALSE)

\* d.update() with millis() returning now
updateOn(d) ==
    \E now \in TimesTwo :
        IF GateOpen(now, lastUpdate, delayTime[d])
        THEN \E word \in WordsTwo :
                \E value \in WordValues[word] :
                    LET r == feed(readingsNumber[d], dataPoints[d],
                                  meanTempC[d], value)
                    IN  /\ lastUpdate' = now
                        /\ pins' = [pins EXCEPT ![d] = AfterRead]
                        /\ dataPoints' = [dataPoints EXCEPT ![d] = r.dataPoints]
                        /\ meanTempC' = [meanTempC EXCEPT ![d] = r.meanTempC]
                        /\ readAt' = [readAt EXCEPT ![d] = now]
                        /\ UNCHANGED <<readingsNumber, delayTime, cfg, fed>>
                        /\ call' = OnDevice("update", d, now, TRUE)
        ELSE /\ UNCHANGED <<prog, cfg, fed, readAt>>
             /\ call' = OnDevice("update", d, now, FALSE)

\* d.setDelayTime(t)
setDelayTimeOn(d) ==
    \E t \in DelaysTwo :
        /\ delayTime' = [delayTime EXCEPT
                            ![d] = validate(t, MAX6675_DEFAULT_DELAY_TIME)]
        /\ UNCHANGED <<readingsNumber, dataPoints, meanTempC, lastUpdate, pins>>
        /\ UNCHANGED <<cfg, fed, readAt>>
        /\ call' = OnDevice("setDelayTime", d, U32(0), FALSE)

NextTwo ==
    \/ \E d \in Devices : updateOn(d)
    \/ \E d \in Devices : setDelayTimeOn(d)

SpecTwo == InitTwo /\ [][NextTwo]_vars

----------------------------------------------------------------------------
(* One device that is never reconfigured and whose chip never reports an
   open thermocouple.  update() is called for ever with timestamps that keep
   advancing, so that again and again a call finds more than the delay
   elapsed: the update() that reads is taken infinitely often. *)

\* update() where the word shifted out, if any, has bit 2 clear
updateValid == update /\ ~OpenFlag(call'.word)

updateReads == updateValid /\ call'.read

NextLive ==
    \/ updateValid
    \/ readCelsius
    \/ readKelvin
    \/ readFahrenheit

SpecLive == Init /\ [][NextLive]_vars /\ WF_vars(updateReads)

----------------------------------------------------------------------------
(* Helpers of the properties. *)

\* a < d, for a timestamp difference a and a delay d below 2^31
ULt(a, d) ==
    \/ a[1] < d \div LimbBase
    \/ a[1] = d \div LimbBase /\ a[2] < d % LimbBase

\* the timestamp of the most recent read, 0 if there has been none
LastRead == IF readAt = <<>> THEN U32(0) ELSE readAt

\* all three accessors report the not-a-number sentinel
Sentinel == IsNaN(Celsius) /\ IsNaN(Kelvin) /\ IsNaN(Fahrenheit)

Accessors == {"readCelsius", "readKelvin", "readFahrenheit"}

----------------------------------------------------------------------------
(* The properties. *)

\* C1: an update() that passes the gate and clocks in a word with the
\* open-thermocouple flag set leaves the queue and the cached mean as they were.
C1_FaultReadLeavesBufferUnchanged ==
    [][(call'.name = "update" /\ call'.read /\ OpenFlag(call'.word))
          => (dataPoints' = dataPoints /\ meanTempC' = meanTempC)]_vars

\* C2: while fewer valid samples than the window size have been taken, the
\* state right after construction included, all three accessors report the
\* sentinel.
C2_WarmUpSentinel == Len(fed) < readingsNumber => Sentinel

\* C3: once as many valid samples as the window size have been fed, the cached
\* mean is the sum of the last window-size valid samples divided by the window
\* size.
C3_SlidingWindowMean ==
    Len(fed) = readingsNumber => meanTempC = DDivInt(DSum(fed), readingsNumber)

\* C4: an update() whose timestamp is less than the delay after the timestamp
\* of the previous protocol read performs no protocol read, whether that
\* previous read was valid or a sensor fault.
C4_RateLimit ==
    [][(call'.name = "update" /\ readAt # <<>>
            /\ ULt(USub(call'.now, readAt), delayTime))
          => ~call'.read]_vars

\* C4 witness: an update() less than the delay after a fault read, at a later
\* timestamp, which did not read.
C4_Witness ==
    /\ call.name = "update" /\ ~call.read
    /\ readAt # <<>> /\ call.now # readAt
    /\ ULt(USub(call.now, readAt), delayTime)
    /\ dataPoints # <<>> /\ IsNaN(dataPoints[Len(dataPoints)])

\* C5: setReadingsNumber() called mid-stream, after a read, empties the queue,
\* and from its return on every accessor reports the sentinel until
\* window-size fresh valid samples have been collected.
C5_ReconfigureClears ==
    [][/\ (call'.name = "setReadingsNumber" /\ readAt # <<>>)
            => (dataPoints' = <<>> /\ Sentinel')
       /\ (Sentinel /\ Len(fed') < readingsNumber') => Sentinel']_vars

\* C6: the window size is the last window argument given if it is positive and
\* 5 otherwise, the delay is the last delay argument given if it is positive
\* and 250 otherwise; both are positive.
C6_ConfigurationPositive ==
    /\ readingsNumber = (IF cfg.n > 0 THEN cfg.n ELSE 5)
    /\ delayTime = (IF cfg.t > 0 THEN cfg.t ELSE 250)
    /\ readingsNumber > 0
    /\ delayTime > 0

\* C6 witness: setDelayTime(0) on a device whose last window argument was 0.
C6_Witness == call.name = "setDelayTime" /\ cfg.t = 0 /\ cfg.n = 0

\* C7: the queue is never longer than the window size, and a valid read taken
\* with the queue at capacity drops exactly the oldest entry and appends the
\* new one, pre-divided, at the tail.
C7_BoundedFifo ==
    /\ [](Len(dataPoints) <= readingsNumber)
    /\ [][(call'.name = "update" /\ call'.read /\ ~OpenFlag(call'.word)
              /\ Len(dataPoints) = readingsNumber)
            => dataPoints' = Append(Tail(dataPoints),
                                    DDivInt(Sample(call'.word), readingsNumber))]_vars

\* C7 witness: a valid read that found a queue of more than one entry at capacity.
C7_Witness ==
    /\ call.name = "update" /\ call.evict /\ ~OpenFlag(call.word)
    /\ readingsNumber > 1

\* C8 as stated: for every word with bit 2 clear the decoded value is 0.25
\* times the magnitude in bits 3..14, whatever bits 15, 1 and 0.
C8_DecodeAnySignBit ==
    (call.name = "readValue" /\ ~OpenFlag(call.word))
        => call.val = Sample(call.word)

\* C8 amended: for every word with bits 2 and 15 clear the decoded value is
\* 0.25 times the magnitude in bits 3..14, a number in 0..4095, whatever bits
\* 1 and 0.
C8_Decode ==
    (call.name = "readValue" /\ ~OpenFlag(call.word) /\ ~SignBit(call.word))
        => /\ call.val = Dbl(call.word \div 8, 4)
           /\ call.word \div 8 \in 0..4095
           /\ call.val = Sample(call.word)

\* C8 witness: the largest magnitude decoded with both low bits set.
C8_Witness ==
    /\ call.name = "readValue" /\ ~IsNaN(call.val)
    /\ call.word = 4095 * 8 + 3

\* C9 as stated: with window 1 and delay 0 configured, every valid read
\* becomes the mean at once, and every update() whose timestamp has advanced
\* past the last read performs a read.
C9_NoLagEveryCall ==
    [][(call'.name = "update" /\ cfg.n = 1 /\ cfg.t = 0)
          => /\ (call'.read /\ ~OpenFlag(call'.word))
                    => meanTempC' = Sample(call'.word)
             /\ call'.now # LastRead => call'.read]_vars

\* C9 amended: with window 1, every valid read becomes the mean at once; a
\* delay argument of 0 configures the default delay, so with it an update()
\* reads exactly when more than 250 has elapsed since the last read.
C9_NoLag ==
    [][/\ (call'.name = "update" /\ readingsNumber = 1
              /\ call'.read /\ ~OpenFlag(call'.word))
            => meanTempC' = Sample(call'.word)
       /\ (call'.name = "update" /\ cfg.t = 0)
            => (call'.read <=> UGt(USub(call'.now, LastRead), 250))]_vars

\* C9 witness: window 1 and delay argument 0, a valid read replacing the
\* previous one as the mean.
C9_Witness ==
    /\ call.name = "update" /\ call.read /\ ~OpenFlag(call.word)
    /\ cfg.n = 1 /\ cfg.t = 0 /\ call.evict
    /\ meanTempC # NaN

C11_UnitConversion ==
    /\ IsNaN(Celsius) => (IsNaN(Kelvin) /\ IsNaN(Fahrenheit))
    /\ ~IsNaN(Celsius) =>
         /\ ~IsNaN(Kelvin)
         /\ Kelvin.num * Celsius.den * 100
                = (Celsius.num * 100 + 27315 * Celsius.den) * Kelvin.den
         /\ ~IsNaN(Fahrenheit)
         /\ Fahrenheit.num * Celsius.den * 5
                = (Celsius.num * 9 + 160 * Celsius.den) * Fahrenheit.den

\* C11 witness: readFahrenheit() returning the conversion of a mean of 37.5 C.
C11_Witness ==
    /\ call.name = "readFahrenheit" /\ ~IsNaN(call.val)
    /\ meanTempC = Dbl(75, 2)

\* the line events of one whole transaction, and the word sixteen samples spell
\* most significant bit first
Cycle == <<"SCK_LOW", "SAMPLE", "SCK_HIGH">>

RECURSIVE Cycles(_)
Cycles(n) == IF n = 0 THEN <<>> ELSE Cycles(n - 1) \o Cycle

WholeTransaction == <<"CS_LOW">> \o Cycles(16) \o <<"CS_HIGH">>

IsPrefix(a, b) == Len(a) <= Len(b) /\ a = SubSeq(b, 1, Len(a))

RECURSIVE MsbFirst(_)
MsbFirst(so) ==
    IF so = <<>> THEN 0 ELSE 2 * MsbFirst(SubSeq(so, 1, Len(so) - 1)) + so[Len(so)]

\* C12: a protocol read is chip-select low, sixteen cycles of clock low, sample,
\* clock high, chip-select high, in that order and nothing else; the k-th
\* sample is bit 15-k of the word; chip-select is high outside a transaction;
\* the clock line changes only while chip-select is low; a read that has
\* returned has run all sixteen cycles.
C12_TransactionFraming ==
    /\ [](/\ IsPrefix(call.log, WholeTransaction)
          /\ call.pc = "idle" => pins.cs = "HIGH"
          /\ call.pc # "idle" => pins.cs = "LOW"
          /\ (call.pc = "idle" /\ call.log # <<>>)
                => /\ call.log = WholeTransaction
                   /\ Len(call.so) = 16
                   /\ call.value % LimbBase = MsbFirst(call.so))
    /\ [][pins'.sck # pins.sck => (pins.cs = "LOW" /\ pins'.cs = "LOW")]_vars

\* C12 witness: a read that has returned after clocking in a word with the top
\* bit set and the bottom bit clear, in the build with 16-bit int.
C12_Witness ==
    /\ call.pc = "idle" /\ call.log # <<>>
    /\ call.word = 33000 /\ call.intMax = INT16_MAX

\* C13: with a single device, update() at timestamp now reads if and only if
\* now minus the timestamp of the latest read (0 if none), modulo 2^32, is
\* strictly greater than the delay.
C13_GateCondition ==
    [][call'.name = "update"
          => (call'.read <=> UGt(USub(call'.now, LastRead), delayTime))]_vars

\* C13 witness: after a read at the last timestamp before the counter wraps, an
\* update() after the wrap at an elapsed time equal to the delay, which did not
\* read.
C13_Witness ==
    /\ call.name = "update" /\ ~call.read
    /\ readAt = ULONG_MAX
    /\ USub(call.now, readAt) = U32(delayTime)

\* C14: an update() made when the time elapsed since the latest read is not
\* greater than the delay changes no field, no timestamp and no line.
C14_ClosedGateNoOp ==
    [][(call'.name = "update" /\ ~UGt(USub(call'.now, LastRead), delayTime))
          => UNCHANGED prog]_vars

\* C14 witness: a closed-gate update() on a device with a full queue and a
\* valid mean, at a timestamp later than the latest read.
C14_Witness ==
    /\ call.name = "update" /\ ~call.read
    /\ Len(dataPoints) = readingsNumber /\ ~IsNaN(meanTempC)
    /\ readAt # <<>> /\ call.now # readAt

\* C17: setDelayTime() leaves the queue, the mean, the window size and the
\* last-update timestamp unchanged, setReadingsNumber() leaves the delay and
\* the last-update timestamp unchanged, and neither drives a line or reads.
C17_ReconfigurationFrame ==
    [][/\ call'.name = "setDelayTime"
            => /\ UNCHANGED <<dataPoints, meanTempC, readingsNumber, lastUpdate, pins>>
               /\ readAt' = readAt
       /\ call'.name = "setReadingsNumber"
            => /\ UNCHANGED <<delayTime, lastUpdate, pins>>
               /\ readAt' = readAt]_vars

\* C17 witness: setDelayTime() on a device that holds samples and a valid mean.
C17_Witness ==
    /\ call.name = "setDelayTime"
    /\ dataPoints # <<>> /\ ~IsNaN(meanTempC)

\* the timestamp of the latest read of device d, 0 if it never read
LastReadOf(d) == IF readAt[d] = <<>> THEN U32(0) ELSE readAt[d]

\* C15: with two devices, whether an update() on a device reads depends only
\* on that device's own latest read and delay, and an update() on the other
\* device changes neither its queue nor its mean.
C15_InstanceIsolation ==
    [][\A b \in Devices :
          /\ (call'.name = "update" /\ call'.dev = b)
                => (call'.read
                      <=> UGt(USub(call'.now, LastReadOf(b)), delayTime[b]))
          /\ (call'.name = "update" /\ call'.dev # b)
                => /\ dataPoints'[b] = dataPoints[b]
                   /\ meanTempC'[b] = meanTempC[b]]_vars

\* C16: on a device that is never reconfigured and only reads valid words,
\* updated for ever, the mean is eventually and from then on always a number,
\* and in every state it is a number exactly when readingsNumber reads have
\* been made.
C16_WarmUpCompletes ==
    /\ <>[](~IsNaN(meanTempC))
    /\ [](~IsNaN(meanTempC) <=> Len(fed) = readingsNumber)

====
